---- MODULE Spec2Model ----
(***************************************************************************)
(* deepchem: the disk-backed Dataset (shards, reshard, select,             *)
(* to_singletask) and the SingletaskToMultitask task router that fans a    *)
(* multitask dataset out into per-task models and fans predictions back.   *)
(*                                                                         *)
(* Two specifications share the module:                                    *)
(*   SpecDataset  a Dataset made by from_numpy and then resharded,         *)
(*                selected from and split per task;                        *)
(*   Spec         a SingletaskToMultitask over a model directory: fit,     *)
(*                the four predict methods, and the caller's reset of the  *)
(*                model directory.                                         *)
(***************************************************************************)
EXTENDS Integers, Sequences, FiniteSets, TLC

VARIABLES
  ds,               \* the Dataset under test (SpecDataset)
  given,            \* the arrays handed to from_numpy (X, y, w, ids)
  out,              \* what the last Dataset operation returned
  tasks,            \* SingletaskToMultitask.tasks
  store_in_memory,  \* SingletaskToMultitask.store_in_memory
  task_model_dirs,  \* SingletaskToMultitask.task_model_dirs
  task_models,      \* SingletaskToMultitask.task_models
  fs,               \* the file system under model_dir
  ret               \* what the last router call returned or raised

vars == <<ds, given, out, tasks, store_in_memory, task_model_dirs,
          task_models, fs, ret>>

dsVars == <<ds, given, out>>
routerVars == <<tasks, store_in_memory, task_model_dirs, task_models, fs, ret>>

(***************************************************************************)
(* Bounds                                                                  *)
(***************************************************************************)
MaxRows == 3
MaxShardSize == 3

None == "None"

(***************************************************************************)
(* Sequence helpers (numpy indexing and stacking)                          *)
(***************************************************************************)
RECURSIVE SumSeq(_)
SumSeq(s) == IF s = <<>> THEN 0 ELSE Head(s) + SumSeq(Tail(s))

\* a[mask]: the entries of a whose mask entry is TRUE, in order
RECURSIVE Masked(_, _)
Masked(a, mask) ==
  IF a = <<>> THEN <<>>
  ELSE (IF Head(mask) THEN <<Head(a)>> ELSE <<>>) \o Masked(Tail(a), Tail(mask))

\* a[:, t] of a row-major matrix
Column(a, t) == [r \in 1..Len(a) |-> a[r][t]]

\* np.reshape(v, (n, 1))
AsColumnMatrix(v) == [r \in 1..Len(v) |-> <<v[r]>>]

(***************************************************************************)
(* Dataset: shards of four arrays                                          *)
(***************************************************************************)
Arrays(X, y, w, ids) == [X |-> X, y |-> y, w |-> w, ids |-> ids]

EmptyArrays == Arrays(<<>>, <<>>, <<>>, <<>>)

NRows(a) == Len(a.X)

SliceArrays(a, lo, hi) ==
  Arrays(SubSeq(a.X, lo, hi), SubSeq(a.y, lo, hi),
         SubSeq(a.w, lo, hi), SubSeq(a.ids, lo, hi))

StackArrays(a, b) ==
  Arrays(a.X \o b.X, a.y \o b.y, a.w \o b.w, a.ids \o b.ids)

\* Dataset.from_numpy: the arrays are written as one shard at data_dir
from_numpy(data_dir, X, y, w, ids, task_names) ==
  [data_dir |-> data_dir, tasks |-> task_names,
   shards |-> <<Arrays(X, y, w, ids)>>]

\* Dataset.to_numpy: the shards stacked in canonical order
RECURSIVE StackShards(_)
StackShards(shards) ==
  IF shards = <<>> THEN EmptyArrays
  ELSE StackArrays(Head(shards), StackShards(Tail(shards)))

to_numpy(d) == StackShards(d.shards)

\* len(dataset)
len(d) == SumSeq([i \in 1..Len(d.shards) |-> NRows(d.shards[i])])

get_number_shards(d) == Len(d.shards)

\* the rows cut into blocks of shard_size, the last one holding the spillover
RECURSIVE Chunks(_, _)
Chunks(a, shard_size) ==
  IF NRows(a) <= shard_size THEN <<a>>
  ELSE <<SliceArrays(a, 1, shard_size)>>
       \o Chunks(SliceArrays(a, shard_size + 1, NRows(a)), shard_size)

\* Dataset.reshard
reshard(d, shard_size) ==
  [d EXCEPT !.shards = Chunks(to_numpy(d), shard_size)]

\* the (shard, offset) that holds row k (1-based) of the canonical order
RECURSIVE Locate(_, _, _)
Locate(shards, k, s) ==
  IF k <= NRows(shards[s]) THEN <<s, k>>
  ELSE Locate(shards, k - NRows(shards[s]), s + 1)

RowAt(d, k) ==
  LET at == Locate(d.shards, k, 1)
      sh == d.shards[at[1]]
  IN  [X |-> sh.X[at[2]], y |-> sh.y[at[2]], w |-> sh.w[at[2]],
       ids |-> sh.ids[at[2]]]

RECURSIVE Insert(_, _)
Insert(v, s) ==
  IF s = <<>> THEN <<v>>
  ELSE IF v <= Head(s) THEN <<v>> \o s ELSE <<Head(s)>> \o Insert(v, Tail(s))

RECURSIVE Sorted(_)
Sorted(s) == IF s = <<>> THEN <<>> ELSE Insert(Head(s), Sorted(Tail(s)))

SelectRows(d, select_dir, indices) ==
  LET rows == [i \in 1..Len(indices) |-> RowAt(d, indices[i] + 1)]
      a == Arrays([i \in 1..Len(rows) |-> rows[i].X],
                  [i \in 1..Len(rows) |-> rows[i].y],
                  [i \in 1..Len(rows) |-> rows[i].w],
                  [i \in 1..Len(rows) |-> rows[i].ids])
  IN  [data_dir |-> select_dir, tasks |-> d.tasks,
       shards |-> IF indices = <<>> THEN <<>> ELSE <<a>>]

\* select as it would be if it walked the indices in ascending order
selectSortedIndices(d, select_dir, indices) ==
  SelectRows(d, select_dir, Sorted(indices))

\* Dataset.select: indices are 0-based row numbers
select(d, select_dir, indices) == SelectRows(d, select_dir, indices)

\* the inclusion test as it would be if only positive weights counted
PositiveWeight(wt) == wt > 0

\* the rows of one shard that are present for task number t
NonzeroWeight(wt) == wt # 0

TaskShard(sh, t) ==
  LET w_task == Column(sh.w, t)
      y_task == Column(sh.y, t)
      keep == [r \in 1..NRows(sh) |-> NonzeroWeight(w_task[r])]
  IN  Arrays(Masked(sh.X, keep), AsColumnMatrix(Masked(y_task, keep)),
             AsColumnMatrix(Masked(w_task, keep)), Masked(sh.ids, keep))

NonEmptyShard(sh) == NRows(sh) > 0

\* Dataset.to_singletask: one dataset per task of d, in task_dirs[t]
to_singletask(d, task_dirs) ==
  [t \in 1..Len(d.tasks) |->
     [data_dir |-> task_dirs[t], tasks |-> <<d.tasks[t]>>,
      shards |-> SelectSeq([s \in 1..Len(d.shards) |-> TaskShard(d.shards[s], t)],
                           NonEmptyShard)]]

(***************************************************************************)
(* SpecDataset: from_numpy, then reshard / select / to_singletask          *)
(***************************************************************************)
DatasetTaskLists == {<<"a", "b">>}
\* per-row weight vectors: positive, zero and negative weights in each column
RowWeights == {<<1, 1>>, <<0, 1>>, <<-1, 0>>}
DataDir == "data_dir"
SelectDir == "select_dir"

\* the arrays a caller hands to from_numpy: n rows, distinct features,
\* binary labels, every id "id", weights w
InputArrays(n, nt, w) ==
  Arrays([r \in 1..n |-> 100 + r],
         [r \in 1..n |-> [t \in 1..nt |-> (r + t) % 2]],
         w,
         [r \in 1..n |-> "id"])

RouterIdle ==
  /\ tasks = <<>>
  /\ store_in_memory = FALSE
  /\ task_model_dirs = <<>>
  /\ task_models = <<>>
  /\ fs = <<>>
  /\ ret = None

InitDataset ==
  /\ \E n \in 1..MaxRows, tl \in DatasetTaskLists :
       \E rw \in [1..n -> RowWeights] :
         /\ given = InputArrays(n, Len(tl),
                                [r \in 1..n |-> SubSeq(rw[r], 1, Len(tl))])
         /\ ds = from_numpy(DataDir, given.X, given.y, given.w, given.ids, tl)
  /\ out = [op |-> "from_numpy"]
  /\ RouterIdle

\* dataset.reshard(shard_size): a non-positive size is refused
Reshard ==
  \E shard_size \in 0..MaxShardSize :
    /\ IF shard_size <= 0
       THEN /\ out' = [op |-> "reshard", shard_size |-> shard_size,
                       raised |-> "ValueError"]
            /\ ds' = ds
       ELSE /\ ds' = reshard(ds, shard_size)
            /\ out' = [op |-> "reshard", shard_size |-> shard_size,
                       raised |-> None]
    /\ UNCHANGED <<given, routerVars>>

\* the index lists tried on a dataset of n rows: none, one or two indices,
\* repeated or out of order, and n itself, which is out of range
IndexLists(n) ==
  {<<>>} \cup {<<i>> : i \in 0..n} \cup {<<i, j>> : i, j \in 0..n}

\* dataset.select(select_dir, indices): an index out of range is refused
Select ==
  \E indices \in IndexLists(len(ds)) :
    /\ IF \E i \in 1..Len(indices) : indices[i] >= len(ds)
       THEN out' = [op |-> "select", indices |-> indices,
                    raised |-> "IndexError"]
       ELSE out' = [op |-> "select", indices |-> indices, raised |-> None,
                    dataset |-> select(ds, SelectDir, indices)]
    /\ UNCHANGED <<ds, given, routerVars>>

TaskDir(t) == "task_dir" \o ToString(t)

\* dataset.to_singletask(task_dirs) with one directory per task
ToSingletask ==
  /\ out' = [op |-> "to_singletask",
             datasets |-> to_singletask(ds, [t \in 1..Len(ds.tasks) |-> TaskDir(t)])]
  /\ UNCHANGED <<ds, given, routerVars>>

NextDataset == Reshard \/ Select \/ ToSingletask

SpecDataset == InitDataset /\ [][NextDataset]_vars

(***************************************************************************)
(* The file system under model_dir                                         *)
(***************************************************************************)
ModelDir == "model_dir"
TaskNames == {"a", "b", "a_data"}

\* str(task): task names are text, which str leaves as it is
str(task) == task

\* os.path.join
join(a, b) == a \o "/" \o b

\* the per-task model directory of __init__
TaskModelDir(task) == join(ModelDir, str(task))

\* the per-task data directory of _create_task_datasets
TaskDataDir(task) == join(ModelDir, str(task) \o "_data")

Paths ==
  {ModelDir} \cup {TaskModelDir(t) : t \in TaskNames}
             \cup {TaskDataDir(t) : t \in TaskNames}

\* a path's entry: whether it exists, and the persisted model and the dataset
\* written into it (<<>> when there is none)
Absent == [exists |-> FALSE, model |-> <<>>, data |-> <<>>]
EmptyDirectory == [exists |-> TRUE, model |-> <<>>, data |-> <<>>]

\* os.path.exists
exists(f, p) == f[p].exists

\* os.makedirs: p and the directories above it
makedirs(f, p) ==
  [q \in Paths |->
     IF q \in {p, ModelDir} /\ ~exists(f, q) THEN EmptyDirectory ELSE f[q]]

\* shutil.rmtree: p and everything beneath it
rmtree(f, p) ==
  [q \in Paths |-> IF q = p \/ p = ModelDir THEN Absent ELSE f[q]]

\* multitask.py imports os, numpy, log, Model, sklearn and undo_transforms:
\* the name shutil is not bound in the module
ShutilImported == FALSE

EmptyDict == <<>>

\* what a call raised: NoError when it returned
NoError == [error |-> None, at |-> 0]
Raised(error, at) == [error |-> error, at |-> at]

Put(dict, k, v) == [x \in DOMAIN dict \cup {k} |-> IF x = k THEN v ELSE dict[x]]

Range(s) == {s[i] : i \in DOMAIN s}

(***************************************************************************)
(* The single-task model a model_builder returns                           *)
(***************************************************************************)
task_types == [t \in TaskNames |-> "Classification"]
model_params == "model_params"

model_builder(task_list, types, params, model_dir) ==
  [tasks |-> task_list, task_types |-> types, model_params |-> params,
   model_dir |-> model_dir, fitted_on |-> <<>>]

\* task_model.fit(dataset)
ModelFit(model, dataset) == [model EXCEPT !.fitted_on = <<dataset>>]

\* task_model.save(): the fitted state is written into the model's directory
ModelSave(f, model) ==
  [f EXCEPT ![model.model_dir] = [@ EXCEPT !.model = model.fitted_on]]

\* task_model.save() raises when the model's directory is missing
ModelSaveRaises(f, model) == ~exists(f, model.model_dir)

\* whether a persisted model lies in directory p
Persisted(f, p) == exists(f, p) /\ f[p].model # <<>>

\* task_model.reload(): the persisted state is read back
ModelReload(f, model) == [model EXCEPT !.fitted_on = f[model.model_dir].model]

\* the single-task prediction of a model for one sample (and one class)
Prediction(model, method, transformers, x, class) ==
  [model_tasks |-> model.tasks, model_dir |-> model.model_dir,
   fitted_on |-> model.fitted_on, method |-> method,
   transformers |-> transformers, x |-> x, class |-> class, undone |-> <<>>]

\* an entry of np.zeros, in the shape of a prediction
Zero ==
  [model_tasks |-> <<>>, model_dir |-> "", fitted_on |-> <<>>,
   method |-> "zeros", transformers |-> <<>>, x |-> 0, class |-> 0,
   undone |-> <<>>]

NClasses == 2

ProbaMethods == {"predict_proba", "predict_proba_on_batch"}

\* task_model.predict / predict_on_batch: one value per sample;
\* predict_proba / predict_proba_on_batch: n_classes values per sample
ModelPredict(model, method, transformers, X) ==
  IF method \in ProbaMethods
  THEN [r \in 1..Len(X) |->
          [c \in 1..NClasses |-> Prediction(model, method, transformers, X[r], c)]]
  ELSE [r \in 1..Len(X) |-> Prediction(model, method, transformers, X[r], 0)]

\* undo_transforms(y_pred, transformers): every entry is taken back through
\* the transformers; with none the matrix is returned as it is
undo_transforms(y, transformers) ==
  IF transformers = <<>> THEN y
  ELSE [ind \in 1..Len(y) |->
          [r \in 1..Len(y[ind]) |-> [y[ind][r] EXCEPT !.undone = transformers]]]

(***************************************************************************)
(* SingletaskToMultitask                                                   *)
(***************************************************************************)
\* __init__: model_dir and one directory per task are made if missing
RECURSIVE MakeTaskModelDirs(_, _, _, _)
MakeTaskModelDirs(ts, ind, f, dirs) ==
  IF ind > Len(ts) THEN [fs |-> f, task_model_dirs |-> dirs]
  ELSE LET task == ts[ind]
           task_model_dir == TaskModelDir(task)
           f1 == IF ~exists(f, task_model_dir) THEN makedirs(f, task_model_dir)
                 ELSE f
       IN  MakeTaskModelDirs(ts, ind + 1, f1, Put(dirs, task, task_model_dir))

Construct(ts, f) ==
  MakeTaskModelDirs(ts, 1, IF ~exists(f, ModelDir) THEN makedirs(f, ModelDir)
                           ELSE f, EmptyDict)

\* _create_task_datasets, the loop: an existing data directory is to be
\* removed, which needs shutil
RECURSIVE MakeTaskDataDirs(_, _, _)
MakeTaskDataDirs(ind, f, task_data_dirs) ==
  IF ind > Len(tasks)
  THEN [raised |-> NoError, fs |-> f, task_data_dirs |-> task_data_dirs]
  ELSE LET task_data_dir == TaskDataDir(tasks[ind])
       IN  IF exists(f, task_data_dir) /\ ~ShutilImported
           THEN [raised |-> Raised("NameError", 0), fs |-> f,
                 task_data_dirs |-> task_data_dirs]
           ELSE MakeTaskDataDirs(
                  ind + 1,
                  makedirs(IF exists(f, task_data_dir)
                           THEN rmtree(f, task_data_dir) ELSE f, task_data_dir),
                  Append(task_data_dirs, task_data_dir))

\* the datasets to_singletask wrote, as they lie on disk
RECURSIVE WriteDatasets(_, _, _)
WriteDatasets(f, datasets, ind) ==
  IF ind > Len(datasets) THEN f
  ELSE WriteDatasets(
         [f EXCEPT ![datasets[ind].data_dir] = [@ EXCEPT !.data = <<datasets[ind]>>]],
         datasets, ind + 1)

\* to_singletask raises unless it is given one directory per task of the dataset
to_singletask_raises(dataset, task_dirs) == Len(dataset.tasks) # Len(task_dirs)

\* _create_task_datasets
create_task_datasets(dataset) ==
  LET made == MakeTaskDataDirs(1, fs, <<>>)
  IN  IF made.raised # NoError
      THEN [raised |-> made.raised, fs |-> made.fs, task_datasets |-> <<>>]
      ELSE IF to_singletask_raises(dataset, made.task_data_dirs)
      THEN [raised |-> Raised("AssertionError", 0), fs |-> made.fs,
            task_datasets |-> <<>>]
      ELSE LET task_datasets == to_singletask(dataset, made.task_data_dirs)
           IN  [raised |-> NoError,
                fs |-> WriteDatasets(made.fs, task_datasets, 1),
                task_datasets |-> task_datasets]

Call(name, task, arg) == [call |-> name, task |-> task, arg |-> arg]

\* fit's store_in_memory branch as it would be if every model were retained
StoreModelAlways(models, task, task_model) == Put(models, task, task_model)

\* if self.store_in_memory: self.task_models[task] = task_model
StoreModel(models, task, task_model) ==
  IF store_in_memory THEN Put(models, task, task_model) ELSE models

\* whether the model builder's model fails at this step of this task
Fails(fault, ind, step) ==
  fault # <<>> /\ fault[1].at = ind /\ fault[1].step = step

\* fit's loop as it would be if a failing task were skipped and the loop went on
RECURSIVE FitLoopSkipFailedTask(_, _, _, _)
FitLoopSkipFailedTask(ind, st, task_datasets, fault) ==
  IF ind > Len(tasks) THEN st
  ELSE
    LET task == tasks[ind]
        dir == task_model_dirs[task]
        built == model_builder(<<task>>, [t \in {task} |-> task_types[t]],
                               model_params, dir)
        fitted == ModelFit(built, task_datasets[ind])
        c3 == st.calls \o <<Call("model_builder", task, dir),
                            Call("fit", task, task_datasets[ind]),
                            Call("save", task, dir)>>
    IN  IF \/ \E step \in {"model_builder", "fit", "save"} : Fails(fault, ind, step)
           \/ ~exists(st.fs, dir)
        THEN FitLoopSkipFailedTask(ind + 1, st, task_datasets, fault)
        ELSE FitLoopSkipFailedTask(
               ind + 1,
               [fs |-> ModelSave(st.fs, fitted),
                task_models |-> StoreModel(st.task_models, task, fitted),
                calls |-> c3, raised |-> NoError],
               task_datasets, fault)

\* fit's loop over the tasks, from task number ind on
RECURSIVE FitLoop(_, _, _, _)
FitLoop(ind, st, task_datasets, fault) ==
  IF ind > Len(tasks) THEN st
  ELSE
    LET task == tasks[ind]
        dir == task_model_dirs[task]
        built == model_builder(<<task>>, [t \in {task} |-> task_types[t]],
                               model_params, dir)
        fitted == ModelFit(built, task_datasets[ind])
        c1 == Append(st.calls, Call("model_builder", task, dir))
        c2 == Append(c1, Call("fit", task, task_datasets[ind]))
        c3 == Append(c2, Call("save", task, dir))
        Raise(calls, step) ==
          [st EXCEPT !.calls = calls, !.raised = Raised(step, ind)]
    IN  IF Fails(fault, ind, "model_builder") THEN Raise(c1, "model_builder")
        ELSE IF Fails(fault, ind, "fit") THEN Raise(c2, "fit")
        ELSE IF Fails(fault, ind, "save") \/ ModelSaveRaises(st.fs, fitted)
        THEN Raise(c3, "save")
        ELSE FitLoop(ind + 1,
                     [fs |-> ModelSave(st.fs, fitted),
                      task_models |-> StoreModel(st.task_models, task, fitted),
                      calls |-> c3, raised |-> NoError],
                     task_datasets, fault)

\* SingletaskToMultitask.fit
fit(dataset, fault) ==
  LET created == create_task_datasets(dataset)
  IN  IF created.raised # NoError
      THEN [fs |-> created.fs, task_models |-> task_models, calls |-> <<>>,
            raised |-> created.raised, task_datasets |-> <<>>]
      ELSE LET done == FitLoop(1, [fs |-> created.fs, task_models |-> task_models,
                                   calls |-> <<>>, raised |-> NoError],
                               created.task_datasets, fault)
           IN  [fs |-> done.fs, task_models |-> done.task_models,
                calls |-> done.calls, raised |-> done.raised,
                task_datasets |-> created.task_datasets]

\* the model of one task as it would be if a missing persisted model were
\* replaced by the freshly built, unfitted one
TaskModelFallback(task) ==
  IF store_in_memory
  THEN IF task \in DOMAIN task_models
       THEN [raised |-> None, model |-> <<task_models[task]>>]
       ELSE [raised |-> "KeyError", model |-> <<>>]
  ELSE LET built == model_builder(<<task>>, [t \in {task} |-> task_types[t]],
                                  model_params, task_model_dirs[task])
       IN  IF Persisted(fs, built.model_dir)
           THEN [raised |-> None, model |-> <<ModelReload(fs, built)>>]
           ELSE [raised |-> None, model |-> <<built>>]

\* the model of one task at predict time: from memory, or rebuilt and reloaded
TaskModel(task) ==
  IF store_in_memory
  THEN IF task \in DOMAIN task_models
       THEN [raised |-> None, model |-> <<task_models[task]>>]
       ELSE [raised |-> "KeyError", model |-> <<>>]
  ELSE LET built == model_builder(<<task>>, [t \in {task} |-> task_types[t]],
                                  model_params, task_model_dirs[task])
       IN  IF Persisted(fs, built.model_dir)
           THEN [raised |-> None, model |-> <<ModelReload(fs, built)>>]
           ELSE [raised |-> "IOError", model |-> <<>>]

\* y_pred[:, ind] = ... as it would be if every result went to the first column
SetFirstColumn(y_pred, ind, column) == [y_pred EXCEPT ![1] = column]

\* y_pred[:, ind] = column
SetColumn(y_pred, ind, column) == [y_pred EXCEPT ![ind] = column]

\* np.zeros((n_samples, n_tasks)) and np.zeros((n_samples, n_tasks, n_classes)),
\* held column by column
Zeros(n_samples, n_tasks, method) ==
  [ind \in 1..n_tasks |->
     [r \in 1..n_samples |->
        IF method \in ProbaMethods THEN [c \in 1..NClasses |-> Zero]
        ELSE Zero]]

\* the loop of the four predict methods, from task number ind on
RECURSIVE PredictLoop(_, _, _, _, _)
PredictLoop(ind, y_pred, method, transformers, X) ==
  IF ind > Len(tasks) THEN [raised |-> NoError, y_pred |-> y_pred]
  ELSE LET got == TaskModel(tasks[ind])
       IN  IF got.raised # None
           THEN [raised |-> Raised(got.raised, ind), y_pred |-> <<>>]
           ELSE PredictLoop(ind + 1,
                            SetColumn(y_pred, ind,
                                      ModelPredict(got.model[1], method,
                                                   transformers, X)),
                            method, transformers, X)

(***************************************************************************)
(* Spec: a SingletaskToMultitask over a fresh model directory              *)
(***************************************************************************)
RouterTaskLists ==
  {<<"a">>, <<"a", "b">>, <<"b", "a">>, <<"a", "a_data">>, <<"a_data", "a">>}

\* the multitask datasets handed to fit: two rows, one or two tasks
FitWeights == {<<<<1, 0>>, <<-1, 1>>>>, <<<<0, 1>>, <<1, 1>>>>}
FitTaskLists == {<<"a">>, <<"a", "b">>}

FitDatasets ==
  {LET a == InputArrays(Len(w), Len(tl),
                        [r \in 1..Len(w) |-> SubSeq(w[r], 1, Len(tl))])
   IN  from_numpy("train_dir", a.X, a.y, a.w, a.ids, tl) :
     w \in FitWeights, tl \in FitTaskLists}

Steps == {"model_builder", "fit", "save"}
Faults(n) == {<<>>} \cup {<<f>> : f \in [at : 1..n, step : Steps]}

PredictBatches == {<<201>>, <<201, 202>>}
TransformerLists == {<<>>, <<"NormalizationTransformer">>}

DatasetIdle ==
  /\ ds = None
  /\ given = None
  /\ out = None

FreshDisk == [q \in Paths |-> Absent]

Init ==
  /\ \E ts \in RouterTaskLists, sim \in BOOLEAN :
       LET made == Construct(ts, FreshDisk)
       IN  /\ tasks = ts
           /\ store_in_memory = sim
           /\ task_model_dirs = made.task_model_dirs
           /\ fs = made.fs
  /\ task_models = EmptyDict
  /\ ret = [op |-> "__init__", raised |-> NoError]
  /\ DatasetIdle

Fit ==
  \E dataset \in FitDatasets, fault \in Faults(Len(tasks)) :
    LET r == fit(dataset, fault)
    IN  /\ fs' = r.fs
        /\ task_models' = r.task_models
        /\ ret' = [op |-> "fit", dataset |-> dataset, fault |-> fault,
                   raised |-> r.raised, calls |-> r.calls,
                   task_datasets |-> r.task_datasets]
        /\ UNCHANGED <<tasks, store_in_memory, task_model_dirs, dsVars>>

Returned(op, X, transformers, r, y) ==
  [op |-> op, X |-> X, transformers |-> transformers, raised |-> r.raised,
   y_pred |-> IF r.raised = NoError THEN y ELSE <<>>]

PredictOnBatch ==
  \E X \in PredictBatches :
    LET r == PredictLoop(1, Zeros(Len(X), Len(tasks), "predict_on_batch"),
                         "predict_on_batch", <<>>, X)
    IN  /\ ret' = Returned("predict_on_batch", X, <<>>, r, r.y_pred)
        /\ UNCHANGED <<tasks, store_in_memory, task_model_dirs, task_models,
                       fs, dsVars>>

Predict ==
  \E dataset \in FitDatasets, transformers \in TransformerLists :
    LET X == to_numpy(dataset).X
        r == PredictLoop(1, Zeros(len(dataset), Len(tasks), "predict"),
                         "predict", <<>>, X)
    IN  /\ ret' = Returned("predict", X, transformers, r,
                           undo_transforms(r.y_pred, transformers))
        /\ UNCHANGED <<tasks, store_in_memory, task_model_dirs, task_models,
                       fs, dsVars>>

PredictProbaOnBatch ==
  \E X \in PredictBatches :
    LET r == PredictLoop(1, Zeros(Len(X), Len(tasks), "predict_proba_on_batch"),
                         "predict_proba_on_batch", <<>>, X)
    IN  /\ ret' = Returned("predict_proba_on_batch", X, <<>>, r, r.y_pred)
        /\ UNCHANGED <<tasks, store_in_memory, task_model_dirs, task_models,
                       fs, dsVars>>

PredictProba ==
  \E dataset \in FitDatasets, transformers \in TransformerLists :
    LET X == to_numpy(dataset).X
        r == PredictLoop(1, Zeros(len(dataset), Len(tasks), "predict_proba"),
                         "predict_proba", transformers, X)
    IN  /\ ret' = Returned("predict_proba", X, transformers, r, r.y_pred)
        /\ UNCHANGED <<tasks, store_in_memory, task_model_dirs, task_models,
                       fs, dsVars>>

\* the caller owns model_dir and clears it between runs:
\* if os.path.exists(model_dir): shutil.rmtree(model_dir); os.makedirs(model_dir)
CallerResetModelDir ==
  /\ fs' = makedirs(IF exists(fs, ModelDir) THEN rmtree(fs, ModelDir) ELSE fs,
                    ModelDir)
  /\ ret' = [op |-> "reset_model_dir", raised |-> NoError]
  /\ UNCHANGED <<tasks, store_in_memory, task_model_dirs, task_models, dsVars>>

Next ==
  \/ Fit
  \/ PredictOnBatch
  \/ Predict
  \/ PredictProbaOnBatch
  \/ PredictProba
  \/ CallerResetModelDir

Spec == Init /\ [][Next]_vars

(***************************************************************************)
(* Dataset properties                                                      *)
(***************************************************************************)
ReshardDone == out.op = "reshard" /\ out.raised = None

ShardRowCounts == [i \in 1..Len(ds.shards) |-> NRows(ds.shards[i])]

\* The part of C1 that the Dataset model settles: after any sequence of
\* reshards with positive sizes to_numpy() equals the arrays the dataset was
\* made from (same rows, same order), the shard row counts sum to the
\* dataset's length, and after reshard(S) no shard holds more than S rows.
ReshardPreservesArrays ==
  /\ to_numpy(ds) = given
  /\ SumSeq(ShardRowCounts) = NRows(given)
  /\ ReshardDone =>
       \A i \in 1..Len(ds.shards) : NRows(ds.shards[i]) <= out.shard_size

\* the source arrays indexed by a list of 0-based indices
Indexed(a, indices) ==
  Arrays([i \in 1..Len(indices) |-> a.X[indices[i] + 1]],
         [i \in 1..Len(indices) |-> a.y[indices[i] + 1]],
         [i \in 1..Len(indices) |-> a.w[indices[i] + 1]],
         [i \in 1..Len(indices) |-> a.ids[indices[i] + 1]])

\* C2: select(new_dir, indices) with in-range indices returns a new dataset
\* whose to_numpy() is the source's X, y, w, ids indexed by the list, in the
\* order given, and the source's to_numpy() is what it was before.
C2_SelectIndexesInOrder ==
  (out.op = "select" /\ out.raised = None) =>
    /\ to_numpy(out.dataset) = Indexed(given, out.indices)
    /\ out.dataset.data_dir = SelectDir
    /\ to_numpy(ds) = given
    /\ ds.data_dir = DataDir

\* a selection in descending order from a source that spans several shards
C2_Witness ==
  /\ out.op = "select" /\ out.raised = None
  /\ Len(out.indices) = 2
  /\ out.indices[1] > out.indices[2]
  /\ get_number_shards(ds) > 1

\* the rows r of the source with w[r, t] # 0, y and w narrowed to column t
ExpectedTaskArrays(a, t) ==
  LET keep == [r \in 1..NRows(a) |-> a.w[r][t] # 0]
  IN  Arrays(Masked(a.X, keep),
             Masked([r \in 1..NRows(a) |-> <<a.y[r][t]>>], keep),
             Masked([r \in 1..NRows(a) |-> <<a.w[r][t]>>], keep),
             Masked(a.ids, keep))

\* C3: to_singletask returns one dataset per task, and the t-th holds exactly
\* the rows with w[r, t] # 0 in source order, X and ids unchanged, y and w
\* narrowed to column t; a negative weight is included, a zero weight is not.
C3_SingletaskRowsNonzeroWeight ==
  out.op = "to_singletask" =>
    /\ Len(out.datasets) = Len(ds.tasks)
    /\ \A t \in 1..Len(ds.tasks) :
         /\ to_numpy(out.datasets[t]) = ExpectedTaskArrays(given, t)
         /\ out.datasets[t].tasks = <<ds.tasks[t]>>
         /\ out.datasets[t].data_dir = TaskDir(t)

\* a split of a several-shard dataset with a negative and a zero weight
C3_Witness ==
  /\ out.op = "to_singletask"
  /\ get_number_shards(ds) > 1
  /\ Len(ds.tasks) = 2
  /\ \E r \in 1..NRows(given) : given.w[r][1] < 0
  /\ \E r \in 1..NRows(given) : given.w[r][1] = 0
  /\ len(out.datasets[1]) = 1

(***************************************************************************)
(* Task router properties                                                  *)
(***************************************************************************)
PredictOps ==
  {"predict_on_batch", "predict", "predict_proba_on_batch", "predict_proba"}

IndexOf(seq, x) == CHOOSE i \in 1..Len(seq) : seq[i] = x

\* the state of the model that belongs to task number i at predict time
OwnModelState(i) ==
  IF store_in_memory THEN task_models[tasks[i]].fitted_on
  ELSE fs[task_model_dirs[tasks[i]]].model

\* C4: predict_on_batch(X) and predict(dataset) return n_tasks columns of
\* n_samples entries, and column i holds the prediction of the model built
\* with task list [tasks[i]] and directory task_model_dirs[tasks[i]]: no
\* column keeps its zero fill, none holds another task's prediction.
C4_ColumnPerTask ==
  (/\ ret.op \in {"predict_on_batch", "predict"}
   /\ ret.raised = NoError
   /\ ret.transformers = <<>>) =>
    /\ Len(ret.y_pred) = Len(tasks)
    /\ \A i \in 1..Len(tasks) :
         /\ Len(ret.y_pred[i]) = Len(ret.X)
         /\ \A r \in 1..Len(ret.X) :
              LET e == ret.y_pred[i][r]
              IN  /\ e # Zero
                  /\ e.model_tasks = <<tasks[i]>>
                  /\ e.model_dir = task_model_dirs[tasks[i]]
                  /\ e.fitted_on = OwnModelState(i)
                  /\ e.method = ret.op
                  /\ e.x = ret.X[r]

\* a two-task prediction made from reloaded models
C4_Witness ==
  /\ ret.op = "predict"
  /\ ret.raised = NoError
  /\ ret.transformers = <<>>
  /\ Len(tasks) = 2
  /\ ~store_in_memory
  /\ Len(ret.X) = 2

\* C5 as stated: the model built for task t is fitted on the single-task
\* dataset of that same task t (the rows where t's weight is nonzero, y/w
\* narrowed to t's column), whatever the router's task list.
C5_FitOnOwnTaskSlice ==
  ret.op = "fit" =>
    \A n \in 1..Len(ret.calls) :
      LET c == ret.calls[n]
      IN  c.call = "fit" =>
            /\ c.task \in Range(ret.dataset.tasks)
            /\ c.arg.tasks = <<c.task>>
            /\ to_numpy(c.arg) =
                 ExpectedTaskArrays(to_numpy(ret.dataset),
                                    IndexOf(ret.dataset.tasks, c.task))

FitCallsOfTask(i) ==
  <<Call("model_builder", tasks[i], task_model_dirs[tasks[i]]),
    Call("fit", tasks[i], ret.task_datasets[i]),
    Call("save", tasks[i], task_model_dirs[tasks[i]])>>

\* the model fit makes for task number i in the call that just ended
FittedModel(i) ==
  ModelFit(model_builder(<<tasks[i]>>, [t \in {tasks[i]} |-> task_types[t]],
                         model_params, task_model_dirs[tasks[i]]),
           ret.task_datasets[i])

\* C6: when fit returns normally every task of the list had its model built,
\* fitted and then saved into task_model_dirs[task], once each and in that
\* order; task_models holds a model for exactly the listed tasks when
\* store_in_memory is true and stays empty when it is false.
C6_FitPersistsEveryTask ==
  /\ ~store_in_memory => task_models = EmptyDict
  /\ (ret.op = "fit" /\ ret.raised = NoError) =>
       /\ Len(ret.calls) = 3 * Len(tasks)
       /\ \A i \in 1..Len(tasks) :
            /\ SubSeq(ret.calls, 3 * i - 2, 3 * i) = FitCallsOfTask(i)
            /\ fs[task_model_dirs[tasks[i]]].model = FittedModel(i).fitted_on
       /\ store_in_memory =>
            /\ DOMAIN task_models = Range(tasks)
            /\ \A i \in 1..Len(tasks) : task_models[tasks[i]] = FittedModel(i)

\* a two-task fit that returned normally with the models kept in memory
C6_Witness ==
  /\ ret.op = "fit"
  /\ ret.raised = NoError
  /\ store_in_memory
  /\ Len(tasks) = 2

AnyAbsent == \E i \in 1..Len(tasks) : ~Persisted(fs, task_model_dirs[tasks[i]])

\* C7 as stated: whenever the persisted model of some task is absent from
\* its directory, each of the four predict methods fails and returns no
\* matrix, for both store_in_memory settings.
C7_AbsentModelAlwaysFails ==
  (ret.op \in PredictOps /\ AnyAbsent) =>
    /\ ret.raised # NoError
    /\ ret.y_pred = <<>>

\* C7 amended: with store_in_memory false each predict method fails with the
\* reload error of the first task whose persisted model is absent and returns
\* no matrix, and succeeds only when every task's model is persisted; with
\* store_in_memory true the directories are not read: the call fails (KeyError)
\* exactly when some task has no model in task_models.
C7_FailsWithoutUsableModel ==
  ret.op \in PredictOps =>
    LET missing ==
          {i \in 1..Len(tasks) :
             IF store_in_memory THEN tasks[i] \notin DOMAIN task_models
             ELSE ~Persisted(fs, task_model_dirs[tasks[i]])}
    IN  IF missing = {}
        THEN ret.raised = NoError /\ Len(ret.y_pred) = Len(tasks)
        ELSE /\ ret.y_pred = <<>>
             /\ ret.raised.error = IF store_in_memory THEN "KeyError"
                                   ELSE "IOError"
             /\ ret.raised.at \in missing
             /\ \A i \in missing : ret.raised.at <= i

\* a reloading predict_proba that fails at the second task's missing model
C7_Witness ==
  /\ ret.op = "predict_proba"
  /\ ~store_in_memory
  /\ ret.raised = Raised("IOError", 2)
  /\ Persisted(fs, task_model_dirs[tasks[1]])

StepNumber(step) ==
  CASE step = "model_builder" -> 1 [] step = "fit" -> 2 [] step = "save" -> 3

\* C8: when building, fitting or saving the model of the k-th task fails, fit
\* raises that failure and stops: the tasks before k were built, fitted and
\* saved in list order and stay persisted (and in task_models when
\* store_in_memory is true), and nothing is built for a later task; a failure
\* of the model is never swallowed.
C8_FitStopsAtFirstFailure ==
  ret.op = "fit" =>
    /\ (ret.fault # <<>> /\ ret.raised.at = 0) =>
         ret.raised.error \in {"NameError", "AssertionError"}
    /\ ret.raised.at > 0 =>
         LET k == ret.raised.at
         IN  /\ ret.raised.error \in Steps
             /\ ret.fault # <<>> => k <= ret.fault[1].at
             /\ Len(ret.calls) = 3 * (k - 1) + StepNumber(ret.raised.error)
             /\ SubSeq(ret.calls, 3 * k - 2, Len(ret.calls)) =
                  SubSeq(FitCallsOfTask(k), 1, StepNumber(ret.raised.error))
             /\ \A i \in 1..(k - 1) :
                  /\ SubSeq(ret.calls, 3 * i - 2, 3 * i) = FitCallsOfTask(i)
                  /\ fs[task_model_dirs[tasks[i]]].model = FittedModel(i).fitted_on
                  /\ store_in_memory => task_models[tasks[i]] = FittedModel(i)

\* a fit whose second task failed at save, the first task's model retained
C8_Witness ==
  /\ ret.op = "fit"
  /\ ret.raised = Raised("save", 2)
  /\ store_in_memory
  /\ tasks[1] \in DOMAIN task_models

\* C10 as stated: the model directories and the data directories of the
\* tasks are pairwise distinct.
C10_TaskDirsPairwiseDistinct ==
  \A i, j \in 1..Len(tasks) :
    /\ task_model_dirs[tasks[i]] # TaskDataDir(tasks[j])
    /\ i # j => /\ task_model_dirs[tasks[i]] # task_model_dirs[tasks[j]]
                /\ TaskDataDir(tasks[i]) # TaskDataDir(tasks[j])

\* C9 as stated: every call of fit, the first and any later one, makes each
\* task's data directory anew and holds this call's slice in it, so a
\* repeated fit gets as far as the first (stated for task lists whose
\* directories do not collide).
C9_RepeatedFitRecreatesDataDirs ==
  (ret.op = "fit" /\ C10_TaskDirsPairwiseDistinct) =>
    /\ ret.raised.error # "NameError"
    /\ ret.raised.error # "AssertionError" =>
         \A i \in 1..Len(tasks) :
           /\ exists(fs, TaskDataDir(tasks[i]))
           /\ fs[TaskDataDir(tasks[i])].data = <<ret.task_datasets[i]>>

====
